---- MODULE Spec2Model ----
(***************************************************************************)
(* Model of the word finder (Trie + Grid search driver) of                 *)
(* graphs/word_finder/trie_driven_graph.py and of the sorting functions of *)
(* sorting/my_sort.py.                                                     *)
(*                                                                         *)
(* Python strings are sequences of one-character strings, Python lists are *)
(* sequences (index i of the source is index i + 1 here), Python sets are  *)
(* sets and dicts are functions.  A raised exception is the "err" field of *)
(* an operation's result.                                                  *)
(***************************************************************************)
EXTENDS Integers, Sequences, FiniteSets, TLC

VARIABLES
    alphabet,             \* Trie.alphabet: dict character -> index
    trie,                 \* the TrieNode objects reachable from Trie.root, by node id
    filtered_dictionary,  \* the set of words whose Trie.insert returned normally
    op,                   \* SpecTrie: the last Trie call and its outcome
    again,                \* SpecTrie: the last call repeated the previous successful insert
    n_calls,              \* SpecTrie: number of Trie.insert calls made
    insert_raised,        \* SpecTrie: some Trie.insert call raised
    rows,                 \* ROWS: the letter matrix
    R, C,                 \* Grid.R, Grid.C
    letters,              \* Grid.letters
    graph,                \* Grid.graph: defaultdict(list)
    pc,                   \* position of the __main__ script
    i,                    \* loop variable of the driver loop: the start index
    paths,                \* full_search: the deque of paths
    found_words,          \* full_search: found_words
    all_words,            \* __main__: all_words
    raised,               \* the exception that ended the script, or "none"
    sort_x, sort_key, sort_reverse,  \* arguments of a sorting call
    sort_result           \* the dict returned by the sorting call

trieVars == <<alphabet, trie, filtered_dictionary, op, again, n_calls, insert_raised>>
gridVars == <<rows, R, C, letters, graph>>
searchVars == <<pc, i, paths, found_words, all_words, raised>>
sortVars == <<sort_x, sort_key, sort_reverse, sort_result>>
vars == <<trieVars, gridVars, searchVars, sortVars>>

-----------------------------------------------------------------------------
(* Bounds of the model *)

\* longest string passed to Trie.insert / Trie.search in SpecTrie
MaxKeyLen == 2
\* number of Trie.insert calls in SpecTrie
MaxInserts == 2
\* number of dictionary words loaded by the script in Spec
MaxWords == 2
\* number of letters of the dictionary words loaded by the script in Spec
MaxLetters == 7
\* longest dictionary word in Spec
MaxWordLen == 4
\* longest input of a sorting call in SpecSort
MaxSortLen == 3

\* letters that occur on the boards
Chars == {"a", "b"}
\* a character that is in no alphabet
BadChars == {"z"}

RECURSIVE Strings(_, _)
\* all sequences over S of length at most n
Strings(S, n) ==
    IF n = 0 THEN {<<>>}
    ELSE LET shorter == Strings(S, n - 1)
         IN  shorter \cup {Append(s, ch) : s \in shorter, ch \in S}

Range(s) == {s[k] : k \in 1..Len(s)}

-----------------------------------------------------------------------------
(* TrieNode and Trie *)

\* Python's None for an alphabet index
None == -1
\* Python's None for a child pointer
NoneNode == <<None>>
\* the root node; a child's id is its parent's id followed by the slot index
Root == <<>>

\* TrieNode.__init__
TrieNode(n_alpha) ==
    [children |-> [k \in 1..n_alpha |-> NoneNode], isWord |-> FALSE]

\* Trie.__init__: the nodes of a new Trie
Trie_init(alpha) == (Root :> TrieNode(Cardinality(DOMAIN alpha)))

\* dict.get
AlphabetGet(alpha, ch) == IF ch \in DOMAIN alpha THEN alpha[ch] ELSE None

\* insert without the test for an existing child: always allocates
AllocChild_Always(t, node, char, n_alpha) ==
    LET child == Append(node, char)
    IN  [((child :> TrieNode(n_alpha)) @@ t) EXCEPT ![node].children[char + 1] = child]

\* Trie.insert, lines 75-77: add a node for this char if not already present
AllocChild(t, node, char, n_alpha) ==
    IF t[node].children[char + 1] = NoneNode
    THEN LET child == Append(node, char)
         IN  [(t @@ (child :> TrieNode(n_alpha))) EXCEPT ![node].children[char + 1] = child]
    ELSE t

\* a terminal mark that flips the flag instead of setting it
MarkWord_Toggle(t, node) == [t EXCEPT ![node].isWord = ~t[node].isWord]

\* Trie.insert, line 79: mark that this node terminates a valid word
MarkWord(t, node) == [t EXCEPT ![node].isWord = TRUE]

RECURSIVE InsertLoop(_, _, _, _, _)
\* Trie.insert, the loop over the levels from `level` on (1-based), then line 79
InsertLoop(alpha, t, node, new_word, level) ==
    IF level > Len(new_word)
    THEN [trie |-> MarkWord(t, node), err |-> "none"]
    ELSE LET char == AlphabetGet(alpha, new_word[level])
         IN  IF char = None
             THEN [trie |-> t, err |-> "ValueError"]
             ELSE LET t2 == AllocChild(t, node, char, Cardinality(DOMAIN alpha))
                  IN  InsertLoop(alpha, t2, t2[node].children[char + 1], new_word, level + 1)

\* Trie.insert
Trie_insert(alpha, t, new_word) == InsertLoop(alpha, t, Root, new_word, 1)

\* any(node.children)
AnyChildren(node) == \E k \in DOMAIN node.children : node.children[k] # NoneNode

RECURSIVE SearchLoop(_, _, _, _, _)
\* Trie.search, the loop over the levels from `level` on, then line 104
SearchLoop(alpha, t, node, key, level) ==
    IF level > Len(key)
    THEN [err |-> "none", isWord |-> t[node].isWord, isExtendable |-> AnyChildren(t[node])]
    ELSE LET char == AlphabetGet(alpha, key[level])
         IN  IF t[node].children[char + 1] = NoneNode
             THEN [err |-> "none", isWord |-> FALSE, isExtendable |-> FALSE]
             ELSE SearchLoop(alpha, t, t[node].children[char + 1], key, level + 1)

RECURSIVE SearchLoop_Lazy(_, _, _, _, _)
\* a search loop that tests each character only when it reaches it
SearchLoop_Lazy(alpha, t, node, key, level) ==
    IF level > Len(key)
    THEN [err |-> "none", isWord |-> t[node].isWord, isExtendable |-> AnyChildren(t[node])]
    ELSE LET char == AlphabetGet(alpha, key[level])
         IN  IF char = None
             THEN [err |-> "ValueError", isWord |-> FALSE, isExtendable |-> FALSE]
             ELSE IF t[node].children[char + 1] = NoneNode
             THEN [err |-> "none", isWord |-> FALSE, isExtendable |-> FALSE]
             ELSE SearchLoop_Lazy(alpha, t, t[node].children[char + 1], key, level + 1)

\* Trie.search with the alphabet test made inside the loop
Trie_search_Lazy(alpha, t, key) == SearchLoop_Lazy(alpha, t, Root, key, 1)

\* Trie.search
Trie_search(alpha, t, key) ==
    IF ~(Range(key) \subseteq DOMAIN alpha)
    THEN [err |-> "ValueError", isWord |-> FALSE, isExtendable |-> FALSE]
    ELSE SearchLoop(alpha, t, Root, key, 1)

-----------------------------------------------------------------------------
(* SpecTrie: a Trie over a fixed alphabet under arbitrary insert and search  *)
(* calls, with strings that may contain a character outside the alphabet.   *)

\* the alphabet of SpecTrie: every letter of Chars, indexed from 0
TrieAlphabet == ("a" :> 0) @@ ("b" :> 1)

\* the strings SpecTrie passes to the Trie
Keys == Strings(Chars \cup BadChars, MaxKeyLen)

NoOp == [name |-> "none", arg |-> <<>>, err |-> "none",
         isWord |-> FALSE, isExtendable |-> FALSE]

\* the variables of the script, unused by SpecTrie and SpecSort
IdleGrid ==
    /\ rows = <<>> /\ R = 0 /\ C = 0 /\ letters = <<>> /\ graph = <<>>
    /\ pc = "idle" /\ i = 0 /\ paths = <<>> /\ found_words = {}
    /\ all_words = {} /\ raised = "none"

\* the variables of a sorting call, unused by SpecTrie and Spec
IdleSort ==
    /\ sort_x = <<>> /\ sort_key = "none" /\ sort_reverse = FALSE
    /\ sort_result = [fn |-> "none"]

\* the variables of the Trie calls, unused by Spec and SpecSort
IdleOp == op = NoOp /\ again = FALSE /\ n_calls = 0 /\ insert_raised = FALSE

InitTrie ==
    /\ alphabet = TrieAlphabet
    /\ trie = Trie_init(alphabet)
    /\ filtered_dictionary = {}
    /\ IdleOp /\ IdleGrid /\ IdleSort

\* a call Trie.insert(new_word)
Insert(new_word) ==
    /\ n_calls < MaxInserts
    /\ LET r == Trie_insert(alphabet, trie, new_word)
       IN  /\ trie' = r.trie
           /\ filtered_dictionary' =
                  IF r.err = "none" THEN filtered_dictionary \cup {new_word}
                  ELSE filtered_dictionary
           /\ op' = [name |-> "insert", arg |-> new_word, err |-> r.err,
                     isWord |-> FALSE, isExtendable |-> FALSE]
    /\ again' = (op.name = "insert" /\ op.err = "none" /\ op.arg = new_word)
    /\ n_calls' = n_calls + 1
    /\ insert_raised' = (insert_raised \/ Trie_insert(alphabet, trie, new_word).err # "none")
    /\ UNCHANGED <<alphabet, gridVars, searchVars, sortVars>>

\* a call Trie.search(key)
Search(key) ==
    /\ LET r == Trie_search(alphabet, trie, key)
       IN  op' = [name |-> "search", arg |-> key, err |-> r.err,
                  isWord |-> r.isWord, isExtendable |-> r.isExtendable]
    /\ again' = FALSE
    /\ UNCHANGED <<alphabet, trie, filtered_dictionary, n_calls, insert_raised,
                   gridVars, searchVars, sortVars>>

TrieInsertCall == \E w \in Keys : Insert(w)
TrieSearchCall == \E k \in Keys : Search(k)

NextTrie == TrieInsertCall \/ TrieSearchCall

SpecTrie == InitTrie /\ [][NextTrie]_vars

-----------------------------------------------------------------------------
(* Grid *)

\* Grid.__init__, lines 127 and 129: convert row,column to flat index
FlatIndex(r, c, nR) == r * nR + c

\* the (x, y) pairs of range(r - 1, r + 2) x range(c - 1, c + 2), in the order
\* of the comprehension of lines 129-130
Window(r, c) == [k \in 1..9 |-> <<r - 1 + ((k - 1) \div 3), c - 1 + ((k - 1) % 3)>>]

\* Grid.__init__, lines 129-132: the flat indices of the cells around (r, c)
\* that lie within the grid
Neighbors(r, c, nR, nC) ==
    LET InGrid(xy) == 0 <= xy[1] /\ xy[1] < nR /\ 0 <= xy[2] /\ xy[2] < nC
        kept == SelectSeq(Window(r, c), InGrid)
    IN  [k \in 1..Len(kept) |-> FlatIndex(kept[k][1], kept[k][2], nR)]

\* Grid.__init__, line 133: omit self from neighbors
OmitSelf(neighbors, idx) ==
    LET NotSelf(n) == n # idx IN SelectSeq(neighbors, NotSelf)

RECURSIVE GraphLoop(_, _, _, _)
\* Grid.__init__, lines 125-133: the cells from the k-th on, in row-major
\* order; an assignment to a key already present replaces its list
GraphLoop(g, k, nR, nC) ==
    IF k > nR * nC THEN g
    ELSE LET r == (k - 1) \div nC
             c == (k - 1) % nC
             idx == FlatIndex(r, c, nR)
         IN  GraphLoop((idx :> OmitSelf(Neighbors(r, c, nR, nC), idx)) @@ g,
                       k + 1, nR, nC)

\* Grid.__init__, lines 125-128: the cell contents appended row by row
Flatten(rws) ==
    LET nC == Len(rws[1])
    IN  [k \in 1..(Len(rws) * nC) |-> rws[((k - 1) \div nC) + 1][((k - 1) % nC) + 1]]

\* Grid.__init__
Grid_init(rws) ==
    [R |-> Len(rws), C |-> Len(rws[1]), letters |-> Flatten(rws),
     graph |-> GraphLoop(<<>>, 1, Len(rws), Len(rws[1]))]

\* self.graph[key] on a defaultdict(list): a missing key is added with []
GraphGet(g, key) ==
    IF key \in DOMAIN g THEN [value |-> g[key], graph |-> g]
    ELSE [value |-> <<>>, graph |-> (key :> <<>>) @@ g]

\* a neighbour filter that keeps the cells already on the path
Unused_All(nbrs, path) == nbrs

\* Grid.search, line 158: the neighbour indices unused in the current path
Unused(nbrs, path) ==
    LET NotInPath(l) == l \notin Range(path) IN SelectSeq(nbrs, NotInPath)

\* the elements of seq at the positions where flags is true, in order
Keep(seq, flags) ==
    LET Flagged(k) == flags[k]
        idx == SelectSeq([k \in 1..Len(seq) |-> k], Flagged)
    IN  [m \in 1..Len(idx) |-> seq[idx[m]]]

\* Grid.search, line 175: the candidate words the trie holds as words
GoodWords(candidate_words, valid) ==
    Keep(candidate_words, [k \in 1..Len(valid) |-> valid[k].isWord])

\* a forwarding rule that drops the prefixes that are words themselves
GoodCandidates_PrefixNotWord(candidates, valid) ==
    Keep(candidates, [k \in 1..Len(valid) |-> valid[k].isExtendable /\ ~valid[k].isWord])

\* Grid.search, line 176: the candidates the trie holds as prefixes
GoodCandidates(candidates, valid) ==
    Keep(candidates, [k \in 1..Len(valid) |-> valid[k].isExtendable])

\* Grid.search
Grid_search(g, lets, alpha, t, path) ==
    LET acc == GraphGet(g, path[Len(path)])
        neighbors == Unused(acc.value, path)
        candidates == [k \in 1..Len(neighbors) |-> Append(path, neighbors[k])]
        Fail(e) == [err |-> e, words |-> <<>>, paths |-> <<>>, graph |-> acc.graph]
    IN  IF Len(path) < 2
        THEN [err |-> "none", words |-> <<>>, paths |-> candidates, graph |-> acc.graph]
        ELSE IF \E k \in 1..Len(candidates) : \E j \in 1..Len(candidates[k]) :
                    candidates[k][j] >= Len(lets)
        THEN Fail("IndexError")
        ELSE LET candidate_words ==
                     [k \in 1..Len(candidates) |->
                         [j \in 1..Len(candidates[k]) |-> lets[candidates[k][j] + 1]]]
                 valid == [k \in 1..Len(candidates) |->
                              Trie_search(alpha, t, candidate_words[k])]
             IN  IF \E k \in 1..Len(valid) : valid[k].err # "none"
                 THEN Fail("ValueError")
                 ELSE IF Len(valid) = 0
                 THEN Fail("ValueError")  \* line 172 unpacks an empty list
                 ELSE [err |-> "none",
                       words |-> GoodWords(candidate_words, valid),
                       paths |-> GoodCandidates(candidates, valid),
                       graph |-> acc.graph]

-----------------------------------------------------------------------------
(* Spec: the __main__ script of trie_driven_graph.py on a board of Boards    *)
(* with a dictionary of at most MaxWords words.                              *)

\* the letter matrices given to the script in place of its 4x4 ROWS. The call
\* grid.search([0, 5]) of line 219 returns on the 1x6, 2x4 and 3x3 boards, so
\* the driver loop runs there; on the other boards it raises and the script ends.
Boards ==
    { <<<<"a">>>>,
      <<<<"a", "b">>>>,
      <<<<"a", "b">>, <<"a", "a">>>>,
      <<<<"a", "b">>, <<"a", "a">>, <<"a", "a">>>>,
      <<<<"a", "b">>, <<"a", "a">>, <<"a", "a">>, <<"a", "a">>>>,
      <<<<"a", "b", "a", "a", "a", "a">>>>,
      <<<<"a", "a", "a", "a">>, <<"a", "a", "a", "b">>>>,
      <<<<"a", "a", "a">>, <<"a", "a", "a">>, <<"a", "a", "a">>>> }

\* __main__, line 191: N_CELLS
N_CELLS == Len(rows) * Len(rows[1])

RECURSIVE LettersOf(_)
\* the number of letters of the words D
LettersOf(D) ==
    IF D = {} THEN 0
    ELSE LET w == CHOOSE x \in D : TRUE IN Len(w) + LettersOf(D \ {w})

\* __main__, line 199: the unique letters in the grid
Alpha(rws) == UNION {Range(rws[r]) : r \in 1..Len(rws)}

\* __main__, line 200: the lookup maps enumerate(alpha) can give; the order in
\* which a set is enumerated is not fixed
AlphaDicts(alpha) ==
    {f \in [alpha -> 0..(Cardinality(alpha) - 1)] :
        \A x, y \in alpha : x # y => f[x] # f[y]}

Init ==
    /\ rows \in Boards
    /\ alphabet \in AlphaDicts(Alpha(rows))
    /\ trie = Trie_init(alphabet)
    /\ filtered_dictionary = {}
    /\ IdleOp /\ IdleSort
    /\ R = 0 /\ C = 0 /\ letters = <<>> /\ graph = <<>>
    /\ pc = "load" /\ i = 0 /\ paths = <<>> /\ found_words = {}
    /\ all_words = {} /\ raised = "none"

\* __main__, lines 204-208: one dictionary word passes the filter and is inserted
LoadWord(word) ==
    /\ pc = "load"
    /\ Cardinality(filtered_dictionary) < MaxWords
    /\ word \notin filtered_dictionary
    /\ LettersOf(filtered_dictionary) + Len(word) <= MaxLetters
    /\ ~(Range(word) \ Alpha(rows) # {} \/ Len(word) > N_CELLS)
    /\ LET r == Trie_insert(alphabet, trie, word)
       IN  /\ trie' = r.trie
           /\ filtered_dictionary' = filtered_dictionary \cup {word}
           /\ pc' = IF r.err = "none" THEN "load" ELSE "raised"
           /\ raised' = r.err
    /\ UNCHANGED <<alphabet, op, again, n_calls, insert_raised, gridVars,
                   i, paths, found_words, all_words, sortVars>>

\* __main__, line 213: grid = Grid(ROWS, word_trie)
GridInit ==
    /\ pc = "load"
    /\ LET grid == Grid_init(rows)
       IN  R' = grid.R /\ C' = grid.C /\ letters' = grid.letters /\ graph' = grid.graph
    /\ pc' = "examine"
    /\ UNCHANGED <<trieVars, rows, i, paths, found_words, all_words, raised, sortVars>>

\* __main__, lines 216-218: the graph after the reads of grid.graph[0],
\* grid.graph[3] and grid.graph[5]
ExamineReads(g) == GraphGet(GraphGet(GraphGet(g, 0).graph, 3).graph, 5).graph

\* __main__, lines 216-221: the three entries and grid.search([0, 5]) are
\* printed, then all_words = set()
Examine ==
    /\ pc = "examine"
    /\ LET r == Grid_search(ExamineReads(graph), letters, alphabet, trie, <<0, 5>>)
       IN  /\ graph' = r.graph
           /\ IF r.err = "none"
              THEN pc' = "driver" /\ all_words' = {} /\ i' = 0 /\ UNCHANGED raised
              ELSE pc' = "raised" /\ raised' = r.err /\ UNCHANGED <<all_words, i>>
    /\ UNCHANGED <<trieVars, rows, R, C, letters, paths, found_words, sortVars>>

\* Grid.full_search, lines 146-147, called by line 224 with start = i
FullSearchBegin ==
    /\ pc = "driver"
    /\ i < N_CELLS
    /\ paths' = <<<<i>>>>
    /\ found_words' = {}
    /\ pc' = "full_search"
    /\ UNCHANGED <<trieVars, gridVars, i, all_words, raised, sortVars>>

\* Grid.full_search, lines 148-153: one iteration of the while loop
FullSearchStep ==
    /\ pc = "full_search"
    /\ paths # <<>>
    /\ LET path == Head(paths)
           r == Grid_search(graph, letters, alphabet, trie, path)
       IN  /\ graph' = r.graph
           /\ IF r.err = "none"
              THEN /\ found_words' = found_words \cup Range(r.words)
                   /\ paths' = Tail(paths) \o r.paths
                   /\ UNCHANGED <<pc, raised>>
              ELSE /\ paths' = Tail(paths)
                   /\ pc' = "raised"
                   /\ raised' = r.err
                   /\ UNCHANGED found_words
    /\ UNCHANGED <<trieVars, rows, R, C, letters, i, all_words, sortVars>>

\* Grid.full_search, line 154, and __main__, lines 224-225
FullSearchReturn ==
    /\ pc = "full_search"
    /\ paths = <<>>
    /\ all_words' = all_words \cup found_words
    /\ found_words' = {}
    /\ IF all_words' \subseteq filtered_dictionary
       THEN pc' = "driver" /\ i' = i + 1 /\ UNCHANGED raised
       ELSE pc' = "raised" /\ raised' = "AssertionError" /\ UNCHANGED i
    /\ UNCHANGED <<trieVars, gridVars, paths, sortVars>>

\* __main__: the loop of line 223 is over
DriverDone ==
    /\ pc = "driver"
    /\ i = N_CELLS
    /\ pc' = "done"
    /\ UNCHANGED <<trieVars, gridVars, i, paths, found_words, all_words, raised, sortVars>>

LoadWordCall == \E w \in Strings(Chars, MaxWordLen) : LoadWord(w)

Next ==
    \/ LoadWordCall
    \/ GridInit
    \/ Examine
    \/ FullSearchBegin
    \/ FullSearchStep
    \/ FullSearchReturn
    \/ DriverDone

Spec == Init /\ [][Next]_vars

-----------------------------------------------------------------------------
(* my_sort.py: bubble_sort, merge_sort and time_base *)

\* the elements sorted in SpecSort: tuples (number, tag)
Elems == {<<1, 1>>, <<1, 2>>, <<2, 1>>, <<2, 2>>}

\* the key arguments of SpecSort: None, and lambda e: e[0]
SortKeys == {"none", "first"}

\* key(a) < key(b): tuples compare lexicographically, numbers by value
KeyLt(key, a, b) ==
    IF key = "first" THEN a[1] < b[1]
    ELSE a[1] < b[1] \/ (a[1] = b[1] /\ a[2] < b[2])

\* key(a) > key(b)
KeyGt(key, a, b) == KeyLt(key, b, a)

\* sx[::-1]
Reversed(sx) == [k \in 1..Len(sx) |-> sx[Len(sx) + 1 - k]]

RECURSIVE BubbleInner(_, _, _, _)
\* bubble_sort, lines 74-79: the inner loop from index idx (0-based) on
BubbleInner(st, key, idx, loop) ==
    IF idx >= loop THEN st
    ELSE LET a == st.sx[idx + 1]
             b == st.sx[idx + 2]
         IN  IF KeyGt(key, a, b)
             THEN BubbleInner([sx |-> [st.sx EXCEPT ![idx + 1] = b, ![idx + 2] = a],
                               compares |-> st.compares + 1,
                               swaps |-> st.swaps + 1], key, idx + 1, loop)
             ELSE BubbleInner([st EXCEPT !.compares = st.compares + 1],
                              key, idx + 1, loop)

RECURSIVE BubbleOuter(_, _, _)
\* bubble_sort, lines 70-79: the passes for loop, loop - 1, ..., 1
BubbleOuter(st, key, loop) ==
    IF loop <= 0 THEN st
    ELSE BubbleOuter(BubbleInner(st, key, 0, loop), key, loop - 1)

\* bubble_sort (without the time)
bubble_sort(x, key, reverse) ==
    LET st == BubbleOuter([sx |-> x, compares |-> 0, swaps |-> 0], key, Len(x) - 1)
    IN  [fn |-> "bubble_sort",
         sorted |-> IF reverse THEN Reversed(st.sx) ELSE st.sx,
         compares |-> st.compares,
         swaps |-> st.swaps]

RECURSIVE MergeLoop(_, _, _, _, _, _, _, _)
\* merge_sort, lines 146-164: the three while loops, with 0-based i, j, k
MergeLoop(li, left, right, key, ii, jj, kk, num_compares) ==
    IF ii < Len(left) /\ jj < Len(right)
    THEN IF KeyLt(key, left[ii + 1], right[jj + 1])
         THEN MergeLoop([li EXCEPT ![kk + 1] = left[ii + 1]], left, right, key,
                        ii + 1, jj, kk + 1, num_compares + 1)
         ELSE MergeLoop([li EXCEPT ![kk + 1] = right[jj + 1]], left, right, key,
                        ii, jj + 1, kk + 1, num_compares + 1)
    ELSE IF ii < Len(left)
    THEN MergeLoop([li EXCEPT ![kk + 1] = left[ii + 1]], left, right, key,
                   ii + 1, jj, kk + 1, num_compares)
    ELSE IF jj < Len(right)
    THEN MergeLoop([li EXCEPT ![kk + 1] = right[jj + 1]], left, right, key,
                   ii, jj + 1, kk + 1, num_compares)
    ELSE [li |-> li, num_compares |-> num_compares]

RECURSIVE sort(_, _, _, _)
\* merge_sort, lines 134-168: the nested function sort
sort(li, key, num_compares, num_merges) ==
    IF Len(li) > 1
    THEN LET mid == Len(li) \div 2
             l == sort(SubSeq(li, 1, mid), key, num_compares, num_merges)
             r == sort(SubSeq(li, mid + 1, Len(li)), key, l.num_compares, l.num_merges)
             m == MergeLoop(li, l.li, r.li, key, 0, 0, 0, r.num_compares)
         IN  [li |-> m.li, num_compares |-> m.num_compares,
              num_merges |-> r.num_merges + 1]
    ELSE [li |-> li, num_compares |-> num_compares, num_merges |-> num_merges + 1]

\* merge_sort (without the time)
merge_sort(x, key, reverse) ==
    LET st == sort(x, key, 0, 0)
    IN  [fn |-> "merge_sort",
         sorted |-> IF reverse THEN Reversed(st.li) ELSE st.li,
         compares |-> st.num_compares,
         merges |-> st.num_merges]

\* the built-in sorted: e goes behind every element that does not have to
\* follow it, so that equal keys keep their order, also when reverse is true
InsertStable(s, e, key, reverse) ==
    LET After(p) == IF reverse THEN KeyLt(key, s[p], e) ELSE KeyLt(key, e, s[p])
        later == {p \in 1..Len(s) : After(p)}
        pos == IF later = {} THEN Len(s) + 1
               ELSE CHOOSE p \in later : \A q \in later : p <= q
    IN  SubSeq(s, 1, pos - 1) \o <<e>> \o SubSeq(s, pos, Len(s))

RECURSIVE Sorted(_, _, _)
\* the built-in sorted(x, key=key, reverse=reverse)
Sorted(x, key, reverse) ==
    IF x = <<>> THEN <<>>
    ELSE InsertStable(Sorted(SubSeq(x, 1, Len(x) - 1), key, reverse),
                      x[Len(x)], key, reverse)

\* time_base (without the time)
time_base(x, key, reverse) ==
    [fn |-> "time_base", sorted |-> Sorted(x, key, reverse)]

-----------------------------------------------------------------------------
(* SpecSort: the three sorting functions called on the same arguments *)

InitSort ==
    /\ sort_x \in Strings(Elems, MaxSortLen)
    /\ sort_key \in SortKeys
    /\ sort_reverse \in BOOLEAN
    /\ sort_result = [fn |-> "none"]
    /\ alphabet = TrieAlphabet
    /\ trie = Trie_init(alphabet)
    /\ filtered_dictionary = {}
    /\ IdleOp /\ IdleGrid

BubbleSort ==
    /\ sort_result' = bubble_sort(sort_x, sort_key, sort_reverse)
    /\ UNCHANGED <<trieVars, gridVars, searchVars, sort_x, sort_key, sort_reverse>>

MergeSort ==
    /\ sort_result' = merge_sort(sort_x, sort_key, sort_reverse)
    /\ UNCHANGED <<trieVars, gridVars, searchVars, sort_x, sort_key, sort_reverse>>

TimeBase ==
    /\ sort_result' = time_base(sort_x, sort_key, sort_reverse)
    /\ UNCHANGED <<trieVars, gridVars, searchVars, sort_x, sort_key, sort_reverse>>

NextSort == BubbleSort \/ MergeSort \/ TimeBase

SpecSort == InitSort /\ [][NextSort]_vars

-----------------------------------------------------------------------------
(* Claims about the Trie, checked under SpecTrie *)

\* p is a prefix of w and shorter than w
StrictPrefix(p, w) == Len(p) < Len(w) /\ SubSeq(w, 1, Len(p)) = p

\* C3: after successful inserts of the words W only, search(k) on a key of
\* alphabet characters returns isWord exactly when k is in W and isExtendable
\* exactly when k is a strict prefix of some word of W.
C3_SearchMatchesInserted ==
    (op.name = "search" /\ ~insert_raised /\ Range(op.arg) \subseteq DOMAIN alphabet)
        => /\ op.err = "none"
           /\ op.isWord <=> (op.arg \in filtered_dictionary)
           /\ op.isExtendable <=>
                  (\E w \in filtered_dictionary : StrictPrefix(op.arg, w))

\* a search that found a key which is an inserted word and also a strict
\* prefix of another inserted word
C3_Witness ==
    /\ op.name = "search" /\ ~insert_raised
    /\ op.isWord /\ op.isExtendable
    /\ Cardinality(filtered_dictionary) >= 2

\* C4: insert and search raise ValueError whenever the string has a character
\* that is no key of the alphabet, wherever it occurs and whatever the trie
\* contains.
C4_MismatchRaises ==
    (op.name \in {"insert", "search"} /\ ~(Range(op.arg) \subseteq DOMAIN alphabet))
        => op.err = "ValueError"

\* a search that raised although the first character of its key is in the
\* alphabet and leads to an absent child of the root
C4_Witness ==
    /\ op.name = "search" /\ op.err = "ValueError"
    /\ Len(op.arg) >= 2
    /\ op.arg[1] \in DOMAIN alphabet
    /\ trie[Root].children[alphabet[op.arg[1]] + 1] = NoneNode

\* C9: inserting a word a second time, right after its successful insertion,
\* leaves every node, child slot and isWord flag as the first insertion left it.
C9_InsertIdempotent == [][again' => trie' = trie]_vars

\* a second insertion of a word of two characters has just been made
C9_Witness == again /\ op.name = "insert" /\ Len(op.arg) >= 2

-----------------------------------------------------------------------------
(* Claims about the Grid and the search, checked under Spec *)

\* the cells (row, column) of the letter matrix
Cells == {<<r, c>> : r \in 0..(Len(rows) - 1), c \in 0..(Len(rows[1]) - 1)}

\* two cells differ by at most 1 in row and in column and are not the same
Adjacent(a, b) ==
    /\ a # b
    /\ a[1] - b[1] \in {-1, 0, 1}
    /\ a[2] - b[2] \in {-1, 0, 1}

RECURSIVE Traces(_)
\* the sequences of n pairwise-distinct cells whose consecutive cells are adjacent
Traces(n) ==
    IF n = 0 THEN {<<>>}
    ELSE IF n = 1 THEN {<<cell>> : cell \in Cells}
    ELSE {Append(tr, cell) : tr \in Traces(n - 1), cell \in Cells} \cap
         {tr \in Seq(Cells) : /\ Adjacent(tr[Len(tr) - 1], tr[Len(tr)])
                              /\ \A k \in 1..(Len(tr) - 1) : tr[k] # tr[Len(tr)]}

\* the word is spelled by some sequence of distinct, consecutively adjacent cells
Traceable(w) ==
    \E tr \in Traces(Len(w)) :
        \A k \in 1..Len(w) : rows[tr[k][1] + 1][tr[k][2] + 1] = w[k]

\* C1: when the driver has run full_search from every start index, all_words
\* contains every dictionary word of length >= 3 that some sequence of
\* pairwise-distinct, consecutively 8-adjacent cells spells.
C1_Complete ==
    pc = "done" =>
        \A w \in filtered_dictionary : (Len(w) >= 3 /\ Traceable(w)) => w \in all_words

\* the adjacency list stored under an index, [] for an index that is no key
Stored(idx) == IF idx \in DOMAIN graph THEN graph[idx] ELSE <<>>

RECURSIVE IndexPaths(_, _)
\* the sequences of n indices from start on, each a stored neighbour of the
\* one before it and none occurring twice
IndexPaths(start, n) ==
    IF n <= 1 THEN {<<start>>}
    ELSE UNION {{Append(p, l) : l \in Range(Stored(p[Len(p)])) \ Range(p)} :
                   p \in IndexPaths(start, n - 1)}

\* the word is the letter string of an index path from start
SpelledFrom(w, start) ==
    \E p \in IndexPaths(start, Len(w)) :
        /\ Len(p) = Len(w)
        /\ \A k \in 1..Len(p) : p[k] < Len(letters) /\ letters[p[k] + 1] = w[k]

\* C2: every word of found_words during full_search(i), and every word of
\* all_words after each start cell, was inserted in the dictionary, has length
\* >= 3 and is the letter string of a path that begins at the start index and
\* contains no index twice.
C2_Sound ==
    /\ \A w \in found_words :
          w \in filtered_dictionary /\ Len(w) >= 3 /\ SpelledFrom(w, i)
    /\ \A w \in all_words :
          /\ w \in filtered_dictionary /\ Len(w) >= 3
          /\ \E start \in 0..(i - 1) : SpelledFrom(w, start)

\* the driver has finished on a board with a repeated letter and found a word
C2_Witness ==
    /\ pc = "done" /\ all_words # {}
    /\ Cardinality(Alpha(rows)) < N_CELLS

\* C5: with an empty dictionary the search from every start cell, and the
\* driver's union, return the empty set, on every board.
C5_EmptyDictionary ==
    [][(pc \in {"driver", "full_search"} /\ filtered_dictionary = {})
          => (pc' # "raised" /\ found_words' = {} /\ all_words' = {})]_vars

\* C6: after construction, the entry stored under every cell's flat index lists
\* exactly the flat indices of the cells adjacent to it, each once.
C6_Adjacency ==
    pc # "load" =>
        \A cell \in Cells :
            LET idx == FlatIndex(cell[1], cell[2], R)
            IN  /\ idx \in DOMAIN graph
                /\ Range(graph[idx]) =
                      {FlatIndex(o[1], o[2], R) : o \in {x \in Cells : Adjacent(cell, x)}}
                /\ Cardinality(Range(graph[idx])) = Len(graph[idx])

\* C7: the flat index of cell (row, column) is row * C + column, the indices
\* of distinct cells differ and are exactly 0..R*C-1, and letters[index] is
\* the letter of the cell.
C7_FlatIndex ==
    pc # "load" =>
        /\ \A cell \in Cells :
              LET idx == FlatIndex(cell[1], cell[2], R)
              IN  /\ idx = cell[1] * C + cell[2]
                  /\ idx < Len(letters)
                  /\ letters[idx + 1] = rows[cell[1] + 1][cell[2] + 1]
        /\ {FlatIndex(cell[1], cell[2], R) : cell \in Cells} = 0..(R * C - 1)
        /\ \A a, b \in Cells :
              FlatIndex(a[1], a[2], R) = FlatIndex(b[1], b[2], R) => a = b

\* C8: a step of the driver's searches leaves the trie, the alphabet,
\* Grid.letters and Grid.graph (keys and neighbour lists) as they were.
C8_SearchFrame ==
    [][(pc \in {"driver", "full_search"}) =>
          (trie' = trie /\ alphabet' = alphabet /\ letters' = letters /\ graph' = graph)]_vars

-----------------------------------------------------------------------------
(* Claims about the shape of the trie, checked under SpecTrie *)

\* the word continues the prefix of the node with the letter of slot k (1-based)
Continues(w, node, k) ==
    /\ Len(w) > Len(node)
    /\ \A j \in 1..Len(node) : AlphabetGet(alphabet, w[j]) = node[j]
    /\ AlphabetGet(alphabet, w[Len(node) + 1]) = k - 1

\* C13: after any sequence of insert calls, failed ones included, a child slot
\* of a node is populated if and only if some successfully inserted word has
\* the slot's letter at that depth after the node's prefix.
C13_SlotsOfInsertedWords ==
    \A node \in DOMAIN trie : \A k \in DOMAIN trie[node].children :
        (trie[node].children[k] # NoneNode)
            <=> \E w \in filtered_dictionary : Continues(w, node, k)

-----------------------------------------------------------------------------
(* Claims about the sorting functions, checked under SpecSort *)

\* C10: the 'sorted' list returned by bubble_sort and by merge_sort is the
\* list the built-in sorted returns for the same x, key and reverse.
C10_SortsLikeSorted ==
    sort_result.fn \in {"bubble_sort", "merge_sort"}
        => sort_result.sorted = Sorted(sort_x, sort_key, sort_reverse)

-----------------------------------------------------------------------------
(* Claims about the course of full_search, checked under Spec *)

\* C11: full_search expands paths until the deque is empty and returns
\* without raising; a path of length >= 2 whose last cell has no unvisited
\* neighbour only ends its branch.
C11_ReturnsNormally ==
    [][(pc = "full_search" /\ paths # <<>>)
          => (pc' = "full_search" /\ raised' = "none")]_vars

\* the candidates of the path at the head of the deque: the path extended by
\* each stored neighbour of its last cell that is not on the path
Candidates ==
    LET path == Head(paths)
        NotInPath(l) == l \notin Range(path)
        nbrs == SelectSeq(Stored(path[Len(path)]), NotInPath)
    IN  [k \in 1..Len(nbrs) |-> Append(path, nbrs[k])]

\* the letter string of an index path
LetterString(p) == [k \in 1..Len(p) |-> letters[p[k] + 1]]

\* the letter string of the path is a strict prefix of a dictionary word
IsPrefixPath(p) == \E w \in filtered_dictionary : StrictPrefix(LetterString(p), w)

\* the letter string of the path is a dictionary word
IsWordPath(p) == LetterString(p) \in filtered_dictionary

\* the letter string of the path is a dictionary word or a strict prefix of one
IsWordOrPrefixPath(p) == IsWordPath(p) \/ IsPrefixPath(p)

\* a step of full_search that expands a path of length >= 2
Expands == pc = "full_search" /\ paths # <<>> /\ Len(Head(paths)) >= 2

\* the step adds to found_words exactly the letter strings of the candidates
\* that are dictionary words
EmitsWords ==
    found_words' = found_words \cup
        {LetterString(c) : c \in {d \in Range(Candidates) : IsWordPath(d)}}

\* C12 (as stated): expanding a path of length >= 2 emits exactly the
\* candidates whose letter string is a word and forwards exactly the
\* candidates whose letter string is a word or a strict prefix of a word.
C12_ForwardsWordOrPrefix ==
    [][Expands => (EmitsWords /\ paths' = Tail(paths) \o SelectSeq(Candidates, IsWordOrPrefixPath))]_vars

\* C12 (amended): expanding a path of length >= 2 emits exactly the candidates
\* whose letter string is a word and forwards exactly the candidates whose
\* letter string is a strict prefix of a word, whether or not it is a word.
C12_ForwardsPrefix ==
    [][Expands => (EmitsWords /\ paths' = Tail(paths) \o SelectSeq(Candidates, IsPrefixPath))]_vars

\* a path on the deque spells a found word: a candidate that is a word and the
\* beginning of a longer word was emitted and forwarded
C12_Witness ==
    /\ pc = "full_search"
    /\ \E k \in 1..Len(paths) :
          /\ Len(paths[k]) >= 3
          /\ IsWordPath(paths[k])
          /\ LetterString(paths[k]) \in found_words

-----------------------------------------------------------------------------
(* The brute-force Grid of words_in_grid.py: the same grid and adjacency,    *)
(* a set of words in place of the Trie.                                      *)

\* words_in_grid.Grid.__init__ followed by set_dict: the constructor's loop is
\* that of trie_driven_graph.Grid.__init__, stride included
WordsInGrid_init(rws, dictionary) ==
    [R |-> Len(rws), C |-> Len(rws[1]), letters |-> Flatten(rws),
     dictionary |-> dictionary,
     graph |-> GraphLoop(<<>>, 1, Len(rws), Len(rws[1]))]

\* words_in_grid.Grid.search
WordsInGrid_search(g, lets, dictionary, path) ==
    LET acc == GraphGet(g, path[Len(path)])
        NotInPath(l) == l \notin Range(path)
        neighbors == SelectSeq(acc.value, NotInPath)
        candidates == [k \in 1..Len(neighbors) |-> Append(path, neighbors[k])]
    IN  IF Len(path) < 2
        THEN [err |-> "none", words |-> {}, paths |-> candidates, graph |-> acc.graph]
        ELSE IF \E k \in 1..Len(candidates) : \E j \in 1..Len(candidates[k]) :
                    candidates[k][j] >= Len(lets)
        THEN [err |-> "IndexError", words |-> {}, paths |-> <<>>, graph |-> acc.graph]
        ELSE LET candidate_words ==
                     [k \in 1..Len(candidates) |->
                         [j \in 1..Len(candidates[k]) |-> lets[candidates[k][j] + 1]]]
             IN  [err |-> "none",
                  words |-> dictionary \cap Range(candidate_words),
                  paths |-> candidates,
                  graph |-> acc.graph]

RECURSIVE ConcatRange(_, _, _)
\* deque.extend over a run of results: seqs[lo] \o ... \o seqs[hi]
ConcatRange(seqs, lo, hi) ==
    IF lo > hi THEN <<>>
    ELSE IF lo = hi THEN seqs[lo]
    ELSE LET mid == (lo + hi) \div 2
         IN  ConcatRange(seqs, lo, mid) \o ConcatRange(seqs, mid + 1, hi)

RECURSIVE WordsInGrid_loop(_, _, _, _, _)
\* words_in_grid.Grid.full_search, the while loop from the given deque on. The
\* deque is first in, first out and holds paths of one length followed by
\* their extensions, so the loop is taken one length at a time: every path of
\* the deque is searched, the first error ends the call, and the next deque is
\* the results' paths in order. The keys a search adds to the defaultdict map
\* to [], which is what a read of a missing key gives, so g is passed as it is.
WordsInGrid_loop(g, lets, dictionary, deque, found) ==
    IF deque = <<>>
    THEN [err |-> "none", words |-> found]
    ELSE LET rs == [k \in 1..Len(deque) |->
                       WordsInGrid_search(g, lets, dictionary, deque[k])]
             failed == {k \in 1..Len(deque) : rs[k].err # "none"}
         IN  IF failed # {}
             THEN [err |-> rs[CHOOSE k \in failed : \A m \in failed : k <= m].err,
                   words |-> {}]
             ELSE WordsInGrid_loop(g, lets, dictionary,
                                   ConcatRange([k \in 1..Len(rs) |-> rs[k].paths], 1, Len(rs)),
                                   found \cup UNION {rs[k].words : k \in 1..Len(rs)})

\* words_in_grid.Grid.full_search
WordsInGrid_full_search(grid, start) ==
    WordsInGrid_loop(grid.graph, grid.letters, grid.dictionary, <<<<start>>>>, {})

\* the step that ends trie_driven_graph.Grid.full_search(i): it empties the
\* deque, or Grid.search raises in it
FullSearchEnds ==
    pc = "full_search" /\ paths # <<>> /\ (paths' = <<>> \/ pc' = "raised")

\* the outcome of words_in_grid.Grid.full_search(i) on the same rows with the
\* same dictionary
BruteOutcome == WordsInGrid_full_search(WordsInGrid_init(rows, filtered_dictionary), i)

\* C14: for every grid, dictionary and start index, the trie-driven
\* full_search and the brute-force full_search both return normally and
\* return the same set of words.
C14_SameOutcome ==
    [][FullSearchEnds =>
          (pc' = "full_search" /\ BruteOutcome.err = "none" /\ found_words' = BruteOutcome.words)]_vars

====
